---- MODULE Spec2Model ----
(***************************************************************************)
(* Model of the tubely upload handlers.                                    *)
(*                                                                         *)
(*   handlerUploadVideo      (fast-start variant, aspect-prefixed key)     *)
(*   handlerUploadVideo      (earlier variant, plain key, public URL)      *)
(*   handlerUploadThumbnail  (inline data URI)                             *)
(*                                                                         *)
(* Every request is one asynchronous task.  JavaScript runs the code       *)
(* between two awaits atomically, so one action is one stretch of code    *)
(* from the resolution of an await to the next await (or to the end of     *)
(* the handler).  Requests interleave at the awaits.                       *)
(*                                                                         *)
(* Strings are sequences of tokens split at "/" and ".", so that           *)
(* concatenation is \o and prefixes and suffixes can be inspected.         *)
(***************************************************************************)
EXTENDS Integers, Sequences, FiniteSets, TLC

VARIABLES
    pc,                 \* pc[r]: position of request r in its handler
    handler,            \* handler[r]: which handler serves request r
    videoId,            \* req.params.videoId
    userID,             \* result of validateJWT
    video,              \* the handler's local `video` object (row read by getVideo)
    aspectRatio,        \* local aspectRatio of handlerUploadVideo
    probed,             \* locals exitCode and data.streams of getVideoAspectRatio
    processedFilepath,  \* local processedFilepath, "" until the remux returns
    completion,         \* completion of the try block (return value or thrown error)
    response,           \* what the handler's promise settles with
    trace,              \* history: the effectful calls request r has made, in order
    fs,                 \* the paths that exist in the filesystem
    s3,                 \* the objects in the bucket
    db,                 \* the videos table
    probe,              \* geometry fed to the aspect classification, and its result
    upload,             \* multipart part fed to the upload validation, and its verdict
    signing,            \* record fed to dbVideoToSignedVideo, and what it gives back
    proc                \* one spawned process, its two pipes and the function awaiting it

vars == <<pc, handler, videoId, userID, video, aspectRatio, probed, processedFilepath,
          completion, response, trace, fs, s3, db, probe, upload, signing, proc>>

locals == <<videoId, userID, video, aspectRatio, probed, processedFilepath>>
pure == <<probe, upload, signing, proc>>

----------------------------------------------------------------------------
(* Bounds *)

NumRequests == 2
MaxWidth == 48
MaxHeight == 27
\* bytes an operating-system pipe holds before a write to it blocks
PipeCapacity == 2
\* most bytes a spawned process writes to one of its streams
MaxOutput == 3

Requests == 1 .. NumRequests

----------------------------------------------------------------------------
(* Program constants *)

MAX_UPLOAD_SIZE == 2 ^ 30

MAX_THUMBNAIL_SIZE == 10 * (2 ^ 20)

ALLOWED_THUMBNAIL_TYPES == { <<"video", "/", "mp4">> }

SIGN_TTL == 5 * 60

assetsRoot == <<"assets">>

Users == {"alice", "bob"}

Owner == "alice"

Handlers == {"video", "videoLegacy", "thumbnail"}

\* req.params.videoId: absent, the id of the stored row, an id with no row.
VideoIds == {"", "v1", "v404"}

\* What getBearerToken/validateJWT gives: a user id, or it throws.
AuthOutcomes == Users \cup {"Unauthorized"}

\* Outcomes of a call into the filesystem, the object store, the database
\* or the signer: it resolves, or it rejects.
CallOutcomes == {"ok", "throw"}

----------------------------------------------------------------------------
(* Values *)

\* the JavaScript value undefined, where a string is expected
Undefined == <<"#undefined">>

NoVideo == [id |-> "", userID |-> "", videoURL |-> <<>>, thumbnailURL |-> <<>>]

InitialVideo == [id |-> "v1", userID |-> Owner, videoURL |-> <<>>, thumbnailURL |-> <<>>]

Pending == [kind |-> "none", status |-> 0, name |-> "", message |-> <<>>, video |-> NoVideo]

\* throw new <name>(<message>)
Throw(name, message) ==
    [kind |-> "throw", status |-> 0, name |-> name, message |-> message, video |-> NoVideo]

\* return respondWithJSON(status, body)
respondWithJSON(status, body) ==
    [kind |-> "return", status |-> status, name |-> "", message |-> <<>>, video |-> body]

\* randomBytes(32).toString("base64url"): 256 random bits, so two requests
\* never draw the same string; request r draws the r-th name.
randomString(r) == <<"rnd", ToString(r)>>

Events(r) == { trace[r][i] : i \in DOMAIN trace[r] }

\* s ends with the tokens of suffix
EndsWith(s, suffix) ==
    /\ Len(s) >= Len(suffix)
    /\ SubSeq(s, Len(s) - Len(suffix) + 1, Len(s)) = suffix

\* s begins with the tokens of prefix
StartsWith(s, prefix) ==
    /\ Len(s) >= Len(prefix)
    /\ SubSeq(s, 1, Len(prefix)) = prefix

----------------------------------------------------------------------------
(* Table access *)

getVideo(table, id) == IF id \in DOMAIN table THEN table[id] ELSE NoVideo

\* updateVideo writes the row it is given over the stored row of that id.
updateVideo(table, row) == [table EXCEPT ![row.id] = row]

----------------------------------------------------------------------------
(* Initial state *)

IdleProbe == [width |-> 0, height |-> 0, bucket |-> "unset"]

Unset == [kind |-> "unset", status |-> 0, name |-> "", message |-> <<>>, video |-> NoVideo]

IdleUpload == [part |-> "absent", size |-> 0, type |-> <<>>, verdict |-> Unset]

IdleSigning == [video |-> NoVideo, result |-> NoVideo, state |-> "unset", signerCalls |-> 0]

IdleProc == [cmd |-> "none", lazy |-> FALSE, stage |-> "idle", exited |-> FALSE,
             outLeft |-> 0, errLeft |-> 0, outPipe |-> 0, errPipe |-> 0,
             outRead |-> FALSE, errRead |-> FALSE]

\* getVideoAspectRatio has not run: no exit code, nothing parsed
NotProbed == [exitCode |-> -1, streams |-> <<>>]

InitRequests ==
    /\ pc = [r \in Requests |-> "start"]
    /\ handler = [r \in Requests |-> "none"]
    /\ videoId = [r \in Requests |-> ""]
    /\ userID = [r \in Requests |-> ""]
    /\ video = [r \in Requests |-> NoVideo]
    /\ aspectRatio = [r \in Requests |-> ""]
    /\ probed = [r \in Requests |-> NotProbed]
    /\ processedFilepath = [r \in Requests |-> <<>>]
    /\ completion = [r \in Requests |-> Pending]
    /\ response = [r \in Requests |-> Pending]
    /\ trace = [r \in Requests |-> <<>>]
    /\ fs = {}
    /\ s3 = {}
    /\ db = [id \in {"v1"} |-> InitialVideo]

Init ==
    /\ InitRequests
    /\ probe = IdleProbe
    /\ upload = IdleUpload
    /\ signing = IdleSigning
    /\ proc = IdleProc

----------------------------------------------------------------------------
(* Pure functions of the handlers *)

Abs(x) == IF x < 0 THEN -x ELSE x

\* CheckUpload with the size test off by one (>= for >)
CheckUploadOffByOne(part, size, type) ==
    IF part # "file" THEN Throw("BadRequestError", <<"No video file provided">>)
    ELSE IF size >= MAX_UPLOAD_SIZE THEN
        Throw("BadRequestError", <<"Video file is too large (max 1 GB)">>)
    ELSE IF type \notin ALLOWED_THUMBNAIL_TYPES THEN
        Throw("BadRequestError", <<"Unsupported thumbnail file type">>)
    ELSE Pending

\* The three checks on the multipart part, in the order of the code: the
\* error thrown, or Pending when none is.  part is "file" when
\* formData.get("video") is a File.
CheckUpload(part, size, type) ==
    IF part # "file" THEN Throw("BadRequestError", <<"No video file provided">>)
    ELSE IF size > MAX_UPLOAD_SIZE THEN
        Throw("BadRequestError", <<"Video file is too large (max 1 GB)">>)
    ELSE IF type \notin ALLOWED_THUMBNAIL_TYPES THEN
        Throw("BadRequestError", <<"Unsupported thumbnail file type">>)
    ELSE Pending

\* classify with inclusive tolerance tests (<= for <)
classifyInclusive(width, height) ==
    IF 100 * Abs(9 * width - 16 * height) <= 9 * height THEN "landscape"
    ELSE IF 100 * Abs(16 * width - 9 * height) <= 16 * height THEN "portrait"
    ELSE "other"

\* ratio = width / height, then the two tolerance tests in order.
\* |w/h - 16/9| < 0.01  is  100 * |9w - 16h| < 9h  and
\* |w/h - 9/16| < 0.01  is  100 * |16w - 9h| < 16h  for h > 0.
\* The code computes in IEEE doubles; the double results equal the exact
\* ones for all widths below 4000 and heights below 2200, the band edges
\* (1609x900, 1591x900, 229x400, 221x400) included.
classify(width, height) ==
    IF 100 * Abs(9 * width - 16 * height) < 9 * height THEN "landscape"
    ELSE IF 100 * Abs(16 * width - 9 * height) < 16 * height THEN "portrait"
    ELSE "other"

\* mediaType.split("/")[1]
Subtype(mediaType) == mediaType[3]

tempFileName(r, mediaType) == randomString(r) \o <<".", Subtype(mediaType)>>

\* path.join(cfg.assetsRoot, name)
tempFilepath(r) == assetsRoot \o <<"/">> \o tempFileName(r, <<"video", "/", "mp4">>)

\* inputFilePath + ".processed.mp4"
outputFilePath(inputFilePath) == inputFilePath \o <<".", "processed", ".", "mp4">>

\* videoKey without the bucket prefix, as the earlier variant builds its key
videoKeyNoPrefix(aspect, processed) == processed

\* `${aspectRatio}/${processedFilepath}`
videoKey(aspect, processed) == <<aspect, "/">> \o processed

\* the earlier variant: key is the file name, the URL is the public one
legacyURL(key) == <<"https://", "bucket", ".", "s3", ".", "region", ".", "amazonaws", ".", "com", "/">> \o key

\* generatePresignedURL(cfg, key, expiresIn)
generatePresignedURL(key, expiresIn) == <<"presigned:">> \o key \o <<"?expires=", ToString(expiresIn)>>

\* FinallyCompletion without the inner catch: a cleanup error replaces the
\* completion of the try block
FinallyCompletionRethrows(c, cleanupThrew) ==
    IF cleanupThrew THEN Throw("Error", <<"cleanup failed">>) ELSE c

\* What the handler settles with after the finally block: the inner
\* try/catch logs a cleanup error and drops it, so the completion of the
\* try block stands.
FinallyCompletion(c, cleanupThrew) == c

----------------------------------------------------------------------------
(* Inputs of the pipeline *)

Parts == {"absent", "string", "file"}

Sizes == {0, MAX_UPLOAD_SIZE - 1, MAX_UPLOAD_SIZE, MAX_UPLOAD_SIZE + 1, MAX_UPLOAD_SIZE + 2}

Types == { <<"video", "/", "mp4">>, <<"video", "/", "webm">>, <<"image", "/", "png">>, <<>> }

ThumbnailSizes == {0, MAX_THUMBNAIL_SIZE, MAX_THUMBNAIL_SIZE + 1}

\* data.streams of the probe's JSON output: no stream, or one with a geometry
ProbeStreams == { <<>>, <<[width |-> 16, height |-> 9]>>, <<[width |-> 9, height |-> 16]>>,
                  <<[width |-> 1, height |-> 1]>> }

ExitCodes == {0, 1}

----------------------------------------------------------------------------
(* handlerUploadVideo, both variants: up to the first await *)

Log(r, event) == trace' = [trace EXCEPT ![r] = Append(@, event)]

\* the handler settles outside the try block: a throw, or the response
Reject(r, err) ==
    /\ response' = [response EXCEPT ![r] = err]
    /\ pc' = [pc EXCEPT ![r] = "done"]

\* Forbidden with the owner test left out
ForbiddenNever(row, user) == FALSE

\* video.userID !== userID
Forbidden(row, user) == row.userID # user

BeginVideo(r) ==
    /\ pc[r] = "start"
    /\ \E h \in {"video", "videoLegacy"}, id \in VideoIds, auth \in AuthOutcomes :
        LET row == getVideo(db, id) IN
        /\ handler' = [handler EXCEPT ![r] = h]
        /\ videoId' = [videoId EXCEPT ![r] = id]
        /\ IF id = "" THEN
                /\ Reject(r, Throw("BadRequestError", <<"Invalid video ID">>))
                /\ UNCHANGED <<userID, video>>
           ELSE IF auth = "Unauthorized" THEN
                /\ Reject(r, Throw("UserNotAuthenticatedError", <<"Invalid token">>))
                /\ UNCHANGED <<userID, video>>
           ELSE
                /\ userID' = [userID EXCEPT ![r] = auth]
                /\ video' = [video EXCEPT ![r] = row]
                /\ IF row = NoVideo THEN
                        Reject(r, Throw("NotFoundError", <<"Couldn't find video">>))
                   ELSE IF Forbidden(row, auth) THEN
                        Reject(r, Throw("UserForbiddenError",
                                        <<"You do not have permission to modify this video">>))
                   ELSE
                        /\ pc' = [pc EXCEPT ![r] = "formData"]
                        /\ UNCHANGED response
    /\ UNCHANGED <<aspectRatio, probed, processedFilepath, completion, trace, fs, s3, db, pure>>

\* ValidateVideo with the file staged before its size and type are tested
ValidateVideoAfterWrite(r) ==
    /\ pc[r] = "formData"
    /\ handler[r] \in {"video", "videoLegacy"}
    /\ \E part \in Parts, size \in Sizes, type \in Types :
        LET err == CheckUpload(part, size, type) IN
        /\ fs' = IF part = "file" THEN fs \cup {tempFilepath(r)} ELSE fs
        /\ trace' = IF part = "file" THEN [trace EXCEPT ![r] = Append(@, "Bun.write")] ELSE trace
        /\ IF err.kind = "throw" THEN Reject(r, err)
           ELSE /\ pc' = [pc EXCEPT ![r] = "write"]
                /\ UNCHANGED response
    /\ UNCHANGED <<handler, locals, completion, s3, db, pure>>

\* formData resolved: the three checks, then file.arrayBuffer() and Bun.write
ValidateVideo(r) ==
    /\ pc[r] = "formData"
    /\ handler[r] \in {"video", "videoLegacy"}
    /\ \E part \in Parts, size \in Sizes, type \in Types :
        LET err == CheckUpload(part, size, type) IN
        IF err.kind = "throw" THEN Reject(r, err)
        ELSE /\ pc' = [pc EXCEPT ![r] = "write"]
             /\ UNCHANGED response
    /\ UNCHANGED <<handler, locals, completion, trace, fs, s3, db, pure>>

----------------------------------------------------------------------------
(* handlerUploadVideo, fast-start variant: the try block *)

\* a throw inside the try block: its completion is recorded and control
\* passes to the finally block
Abort(r, err) ==
    /\ completion' = [completion EXCEPT ![r] = err]
    /\ pc' = [pc EXCEPT ![r] = "existsTemp"]

\* await Bun.write(tempFilepath, buffer).  A write that fails may or may
\* not leave the (partial) file behind.
Stage(r) ==
    /\ pc[r] = "write"
    /\ handler[r] = "video"
    /\ Log(r, "Bun.write")
    /\ \E outcome \in CallOutcomes, left \in BOOLEAN :
        IF outcome = "ok" THEN
            /\ left
            /\ fs' = fs \cup {tempFilepath(r)}
            /\ pc' = [pc EXCEPT ![r] = "probe"]
            /\ UNCHANGED completion
        ELSE
            /\ fs' = IF left THEN fs \cup {tempFilepath(r)} ELSE fs
            /\ Abort(r, Throw("Error", <<"write failed">>))
    /\ UNCHANGED <<handler, locals, response, s3, db, pure>>

\* Inspect with an empty stream list classified instead of rejected
InspectDefaultsToOther(r) ==
    /\ pc[r] = "probe"
    /\ handler[r] = "video"
    /\ Log(r, "ffprobe")
    /\ \E exitCode \in ExitCodes, streams \in ProbeStreams :
        /\ probed' = [probed EXCEPT ![r] = [exitCode |-> exitCode,
                                            streams |-> IF exitCode = 0 THEN streams ELSE <<>>]]
        /\ IF exitCode # 0 THEN
                /\ Abort(r, Throw("Error", <<"ffprobe failed with exit code ", ToString(exitCode),
                                             ": ", "stderr">>))
                /\ UNCHANGED aspectRatio
           ELSE
                /\ aspectRatio' = [aspectRatio EXCEPT
                                     ![r] = IF streams = <<>> THEN "other"
                                            ELSE classify(streams[1].width, streams[1].height)]
                /\ pc' = [pc EXCEPT ![r] = "remux"]
                /\ UNCHANGED completion
    /\ UNCHANGED <<handler, videoId, userID, video, processedFilepath, response,
                   fs, s3, db, pure>>

\* await getVideoAspectRatio(tempFilepath): ffprobe runs to its exit, then
\* the exit code is tested, the JSON read and the ratio classified.  The
\* output is parsed only after an exit code of 0.
Inspect(r) ==
    /\ pc[r] = "probe"
    /\ handler[r] = "video"
    /\ Log(r, "ffprobe")
    /\ \E exitCode \in ExitCodes, streams \in ProbeStreams :
        /\ probed' = [probed EXCEPT ![r] = [exitCode |-> exitCode,
                                            streams |-> IF exitCode = 0 THEN streams ELSE <<>>]]
        /\ IF exitCode # 0 THEN
                /\ Abort(r, Throw("Error", <<"ffprobe failed with exit code ", ToString(exitCode),
                                             ": ", "stderr">>))
                /\ UNCHANGED aspectRatio
           ELSE IF streams = <<>> THEN
                \* data.streams[0] is undefined: the destructuring throws
                /\ Abort(r, Throw("TypeError", <<"undefined is not an object">>))
                /\ UNCHANGED aspectRatio
           ELSE
                /\ aspectRatio' = [aspectRatio EXCEPT
                                     ![r] = classify(streams[1].width, streams[1].height)]
                /\ pc' = [pc EXCEPT ![r] = "remux"]
                /\ UNCHANGED completion
    /\ UNCHANGED <<handler, videoId, userID, video, processedFilepath, response,
                   fs, s3, db, pure>>

\* Remux with the test of the exit code left out: the output path is
\* returned whatever ffmpeg did
RemuxIgnoresExit(r) ==
    /\ pc[r] = "remux"
    /\ handler[r] = "video"
    /\ Log(r, "ffmpeg")
    /\ \E exitCode \in ExitCodes, created \in BOOLEAN :
        LET outputPath == outputFilePath(tempFilepath(r)) IN
        /\ exitCode = 0 => created
        /\ fs' = IF created THEN fs \cup {outputPath} ELSE fs
        /\ processedFilepath' = [processedFilepath EXCEPT ![r] = outputPath]
        /\ pc' = [pc EXCEPT ![r] = "upload"]
        /\ UNCHANGED completion
    /\ UNCHANGED <<handler, videoId, userID, video, aspectRatio, probed, response, s3, db, pure>>

\* processedFilepath = await processVideoForFastStart(tempFilepath): ffmpeg
\* runs to its exit.  On exit 0 the output file is written and its path is
\* returned; on a non-zero exit the function throws, the assignment to
\* processedFilepath does not happen, and ffmpeg may or may not have
\* created its output file before it failed.
Remux(r) ==
    /\ pc[r] = "remux"
    /\ handler[r] = "video"
    /\ Log(r, "ffmpeg")
    /\ \E exitCode \in ExitCodes, created \in BOOLEAN :
        LET outputPath == outputFilePath(tempFilepath(r)) IN
        IF exitCode = 0 THEN
            /\ created
            /\ fs' = fs \cup {outputPath}
            /\ processedFilepath' = [processedFilepath EXCEPT ![r] = outputPath]
            /\ pc' = [pc EXCEPT ![r] = "upload"]
            /\ UNCHANGED completion
        ELSE
            /\ fs' = IF created THEN fs \cup {outputPath} ELSE fs
            /\ Abort(r, Throw("Error", <<"ffprobe failed with exit code ", ToString(exitCode),
                                         ": ", "stderr">>))
            /\ UNCHANGED processedFilepath
    /\ UNCHANGED <<handler, videoId, userID, video, aspectRatio, probed, response, s3, db, pure>>

\* Upload with the record written before the object is pushed
UploadRecordsFirst(r) ==
    /\ pc[r] = "upload"
    /\ handler[r] = "video"
    /\ trace' = [trace EXCEPT ![r] = @ \o <<"updateVideo", "uploadVideoToS3">>]
    /\ db' = updateVideo(db, [video[r] EXCEPT
                                !.videoURL = videoKey(aspectRatio[r], processedFilepath[r])])
    /\ \E outcome \in CallOutcomes :
        IF outcome = "ok" THEN
            /\ s3' = s3 \cup {[key |-> videoKey(aspectRatio[r], processedFilepath[r]),
                               file |-> processedFilepath[r],
                               contentType |-> <<"video", "/", "mp4">>]}
            /\ pc' = [pc EXCEPT ![r] = "record"]
            /\ UNCHANGED completion
        ELSE
            /\ Abort(r, Throw("Error", <<"upload failed">>))
            /\ UNCHANGED s3
    /\ UNCHANGED <<handler, locals, response, fs, pure>>

\* Upload with a failed push ignored: the handler goes on to the record
UploadIgnoresFailure(r) ==
    /\ pc[r] = "upload"
    /\ handler[r] = "video"
    /\ Log(r, "uploadVideoToS3")
    /\ \E outcome \in CallOutcomes :
        /\ s3' = IF outcome = "ok"
                 THEN s3 \cup {[key |-> videoKey(aspectRatio[r], processedFilepath[r]),
                                file |-> processedFilepath[r],
                                contentType |-> <<"video", "/", "mp4">>]}
                 ELSE s3
        /\ pc' = [pc EXCEPT ![r] = "record"]
        /\ UNCHANGED completion
    /\ UNCHANGED <<handler, locals, response, fs, db, pure>>

\* await uploadVideoToS3(cfg, key, processedFilepath, "video/mp4")
Upload(r) ==
    /\ pc[r] = "upload"
    /\ handler[r] = "video"
    /\ Log(r, "uploadVideoToS3")
    /\ \E outcome \in CallOutcomes :
        IF outcome = "ok" THEN
            /\ s3' = s3 \cup {[key |-> videoKey(aspectRatio[r], processedFilepath[r]),
                               file |-> processedFilepath[r],
                               contentType |-> <<"video", "/", "mp4">>]}
            /\ pc' = [pc EXCEPT ![r] = "record"]
            /\ UNCHANGED completion
        ELSE
            /\ Abort(r, Throw("Error", <<"upload failed">>))
            /\ UNCHANGED s3
    /\ UNCHANGED <<handler, locals, response, fs, db, pure>>

\* NeedsSigning with the test of video.videoURL left out
NeedsSigningAlways(v) == TRUE

\* dbVideoToSignedVideo goes on to sign unless !video.videoURL: the stored
\* reference is neither undefined nor the empty string
NeedsSigning(v) == v.videoURL # Undefined /\ v.videoURL # <<>>

\* Record with the reference signed before it is stored
RecordSigned(r) ==
    /\ pc[r] = "record"
    /\ handler[r] = "video"
    /\ Log(r, "updateVideo")
    /\ video' = [video EXCEPT ![r].videoURL = videoKey(aspectRatio[r], processedFilepath[r])]
    /\ \E outcome \in CallOutcomes :
        IF outcome = "ok" THEN
            /\ db' = updateVideo(db, [video'[r] EXCEPT
                                        !.videoURL = generatePresignedURL(@, SIGN_TTL)])
            /\ pc' = [pc EXCEPT ![r] = "sign"]
            /\ UNCHANGED completion
        ELSE
            /\ Abort(r, Throw("Error", <<"update failed">>))
            /\ UNCHANGED db
    /\ UNCHANGED <<handler, videoId, userID, aspectRatio, probed, processedFilepath, response,
                   fs, s3, pure>>

\* video.videoURL = videoURL; updateVideo(cfg.db, video); then the call of
\* dbVideoToSignedVideo up to its await
Record(r) ==
    /\ pc[r] = "record"
    /\ handler[r] = "video"
    /\ Log(r, "updateVideo")
    /\ video' = [video EXCEPT ![r].videoURL = videoKey(aspectRatio[r], processedFilepath[r])]
    /\ \E outcome \in CallOutcomes :
        IF outcome = "ok" THEN
            /\ db' = updateVideo(db, video'[r])
            /\ IF ~NeedsSigning(video'[r]) THEN
                    /\ completion' = [completion EXCEPT ![r] = respondWithJSON(200, video'[r])]
                    /\ pc' = [pc EXCEPT ![r] = "existsTemp"]
               ELSE
                    /\ pc' = [pc EXCEPT ![r] = "sign"]
                    /\ UNCHANGED completion
        ELSE
            /\ Abort(r, Throw("Error", <<"update failed">>))
            /\ UNCHANGED db
    /\ UNCHANGED <<handler, videoId, userID, aspectRatio, probed, processedFilepath, response,
                   fs, s3, pure>>

\* video.videoURL = await generatePresignedURL(cfg, video.videoURL, 5 * 60);
\* return respondWithJSON(200, video)
Sign(r) ==
    /\ pc[r] = "sign"
    /\ handler[r] = "video"
    /\ Log(r, "generatePresignedURL")
    /\ \E outcome \in CallOutcomes :
        IF outcome = "ok" THEN
            /\ video' = [video EXCEPT ![r].videoURL = generatePresignedURL(@, SIGN_TTL)]
            /\ completion' = [completion EXCEPT ![r] = respondWithJSON(200, video'[r])]
            /\ pc' = [pc EXCEPT ![r] = "existsTemp"]
        ELSE
            /\ Abort(r, Throw("Error", <<"signing failed">>))
            /\ UNCHANGED video
    /\ UNCHANGED <<handler, videoId, userID, aspectRatio, probed, processedFilepath, response,
                   fs, s3, db, pure>>

----------------------------------------------------------------------------
(* handlerUploadVideo, fast-start variant: the finally block *)

\* the end of the finally block: the handler settles
Settle(r, cleanupThrew) ==
    /\ response' = [response EXCEPT ![r] = FinallyCompletion(completion[r], cleanupThrew)]
    /\ pc' = [pc EXCEPT ![r] = "done"]

\* a throw inside the inner try: the catch logs it, the finally block ends
Caught(r, event) ==
    /\ trace' = [trace EXCEPT ![r] = @ \o <<event, "catch">>]
    /\ Settle(r, TRUE)
    /\ UNCHANGED fs

\* await Bun.file(tempFilepath).exists()
ExistsTemp(r) ==
    /\ pc[r] = "existsTemp"
    /\ handler[r] = "video"
    /\ \E outcome \in CallOutcomes :
        IF outcome = "throw" THEN Caught(r, "exists:temp")
        ELSE
            /\ Log(r, "exists:temp")
            /\ pc' = [pc EXCEPT ![r] = IF tempFilepath(r) \in fs THEN "deleteTemp"
                                       ELSE "existsProcessed"]
            /\ UNCHANGED <<response, fs>>
    /\ UNCHANGED <<handler, locals, completion, s3, db, pure>>

\* await Bun.file(tempFilepath).delete()
DeleteTemp(r) ==
    /\ pc[r] = "deleteTemp"
    /\ handler[r] = "video"
    /\ \E outcome \in CallOutcomes :
        IF outcome = "throw" THEN Caught(r, "delete:temp")
        ELSE
            /\ Log(r, "delete:temp")
            /\ fs' = fs \ {tempFilepath(r)}
            /\ pc' = [pc EXCEPT ![r] = "existsProcessed"]
            /\ UNCHANGED response
    /\ UNCHANGED <<handler, locals, completion, s3, db, pure>>

\* await Bun.file(processedFilepath).exists(); no file has the empty path
ExistsProcessed(r) ==
    /\ pc[r] = "existsProcessed"
    /\ handler[r] = "video"
    /\ \E outcome \in CallOutcomes :
        IF outcome = "throw" THEN Caught(r, "exists:processed")
        ELSE
            /\ Log(r, "exists:processed")
            /\ IF processedFilepath[r] \in fs
               THEN /\ pc' = [pc EXCEPT ![r] = "deleteProcessed"]
                    /\ UNCHANGED response
               ELSE Settle(r, FALSE)
            /\ UNCHANGED fs
    /\ UNCHANGED <<handler, locals, completion, s3, db, pure>>

\* await Bun.file(processedFilepath).delete()
DeleteProcessed(r) ==
    /\ pc[r] = "deleteProcessed"
    /\ handler[r] = "video"
    /\ \E outcome \in CallOutcomes :
        IF outcome = "throw" THEN Caught(r, "delete:processed")
        ELSE
            /\ Log(r, "delete:processed")
            /\ fs' = fs \ {processedFilepath[r]}
            /\ Settle(r, FALSE)
    /\ UNCHANGED <<handler, locals, completion, s3, db, pure>>

----------------------------------------------------------------------------
(* handlerUploadVideo, earlier variant: stage, upload, record, clean up *)

\* const key = `${randomString}.${mediaType.split("/")[1]}`
legacyKey(r) == tempFileName(r, <<"video", "/", "mp4">>)

StageLegacy(r) ==
    /\ pc[r] = "write"
    /\ handler[r] = "videoLegacy"
    /\ Log(r, "Bun.write")
    /\ \E outcome \in CallOutcomes, left \in BOOLEAN :
        IF outcome = "ok" THEN
            /\ left
            /\ fs' = fs \cup {tempFilepath(r)}
            /\ pc' = [pc EXCEPT ![r] = "upload"]
            /\ UNCHANGED completion
        ELSE
            /\ fs' = IF left THEN fs \cup {tempFilepath(r)} ELSE fs
            /\ Abort(r, Throw("Error", <<"write failed">>))
    /\ UNCHANGED <<handler, locals, response, s3, db, pure>>

\* await uploadVideoToS3(cfg, key, tempFilepath, "video/mp4")
UploadLegacy(r) ==
    /\ pc[r] = "upload"
    /\ handler[r] = "videoLegacy"
    /\ Log(r, "uploadVideoToS3")
    /\ \E outcome \in CallOutcomes :
        IF outcome = "ok" THEN
            /\ s3' = s3 \cup {[key |-> legacyKey(r), file |-> tempFilepath(r),
                               contentType |-> <<"video", "/", "mp4">>]}
            /\ pc' = [pc EXCEPT ![r] = "record"]
            /\ UNCHANGED completion
        ELSE
            /\ Abort(r, Throw("Error", <<"upload failed">>))
            /\ UNCHANGED s3
    /\ UNCHANGED <<handler, locals, response, fs, db, pure>>

\* video.videoURL = videoURL; updateVideo(cfg.db, video);
\* return respondWithJSON(200, video)
RecordLegacy(r) ==
    /\ pc[r] = "record"
    /\ handler[r] = "videoLegacy"
    /\ Log(r, "updateVideo")
    /\ video' = [video EXCEPT ![r].videoURL = legacyURL(legacyKey(r))]
    /\ \E outcome \in CallOutcomes :
        IF outcome = "ok" THEN
            /\ db' = updateVideo(db, video'[r])
            /\ completion' = [completion EXCEPT ![r] = respondWithJSON(200, video'[r])]
            /\ pc' = [pc EXCEPT ![r] = "existsTemp"]
        ELSE
            /\ Abort(r, Throw("Error", <<"update failed">>))
            /\ UNCHANGED db
    /\ UNCHANGED <<handler, videoId, userID, aspectRatio, probed, processedFilepath, response,
                   fs, s3, pure>>

ExistsTempLegacy(r) ==
    /\ pc[r] = "existsTemp"
    /\ handler[r] = "videoLegacy"
    /\ \E outcome \in CallOutcomes :
        IF outcome = "throw" THEN Caught(r, "exists:temp")
        ELSE
            /\ Log(r, "exists:temp")
            /\ IF tempFilepath(r) \in fs
               THEN /\ pc' = [pc EXCEPT ![r] = "deleteTemp"]
                    /\ UNCHANGED response
               ELSE Settle(r, FALSE)
            /\ UNCHANGED fs
    /\ UNCHANGED <<handler, locals, completion, s3, db, pure>>

DeleteTempLegacy(r) ==
    /\ pc[r] = "deleteTemp"
    /\ handler[r] = "videoLegacy"
    /\ \E outcome \in CallOutcomes :
        IF outcome = "throw" THEN Caught(r, "delete:temp")
        ELSE
            /\ Log(r, "delete:temp")
            /\ fs' = fs \ {tempFilepath(r)}
            /\ Settle(r, FALSE)
    /\ UNCHANGED <<handler, locals, completion, s3, db, pure>>

----------------------------------------------------------------------------
(* handlerUploadThumbnail *)

BeginThumbnail(r) ==
    /\ pc[r] = "start"
    /\ \E id \in VideoIds, auth \in AuthOutcomes :
        /\ handler' = [handler EXCEPT ![r] = "thumbnail"]
        /\ videoId' = [videoId EXCEPT ![r] = id]
        /\ IF id = "" THEN
                /\ Reject(r, Throw("BadRequestError", <<"Invalid video ID">>))
                /\ UNCHANGED userID
           ELSE IF auth = "Unauthorized" THEN
                /\ Reject(r, Throw("UserNotAuthenticatedError", <<"Invalid token">>))
                /\ UNCHANGED userID
           ELSE
                /\ userID' = [userID EXCEPT ![r] = auth]
                /\ pc' = [pc EXCEPT ![r] = "formData"]
                /\ UNCHANGED response
    /\ UNCHANGED <<video, aspectRatio, probed, processedFilepath, completion, trace, fs, s3, db, pure>>

\* formData resolved: the two checks, then file.arrayBuffer()
ValidateThumbnail(r) ==
    /\ pc[r] = "formData"
    /\ handler[r] = "thumbnail"
    /\ \E part \in Parts, size \in ThumbnailSizes :
        IF part # "file" THEN
            Reject(r, Throw("BadRequestError", <<"No thumbnail file provided">>))
        ELSE IF size > MAX_THUMBNAIL_SIZE THEN
            Reject(r, Throw("BadRequestError", <<"Thumbnail file is too large">>))
        ELSE
            /\ pc' = [pc EXCEPT ![r] = "arrayBuffer"]
            /\ UNCHANGED response
    /\ UNCHANGED <<handler, locals, completion, trace, fs, s3, db, pure>>

\* `data:${mediaType};base64,${buffer.toString("base64")}`
thumbnailDataURL(r) == <<"data:", "image", "/", "png", ";base64,", "bytes", ToString(r)>>

\* arrayBuffer resolved: getVideo, the owner check, the update, the response
StoreThumbnail(r) ==
    /\ pc[r] = "arrayBuffer"
    /\ handler[r] = "thumbnail"
    /\ LET row == getVideo(db, videoId[r]) IN
        IF row = NoVideo THEN
            /\ Reject(r, Throw("NotFoundError", <<"Couldn't find video">>))
            /\ video' = [video EXCEPT ![r] = row]
            /\ UNCHANGED <<db, trace>>
        ELSE IF Forbidden(row, userID[r]) THEN
            /\ Reject(r, Throw("UserForbiddenError",
                               <<"You do not have permission to modify this video">>))
            /\ video' = [video EXCEPT ![r] = row]
            /\ UNCHANGED <<db, trace>>
        ELSE
            /\ video' = [video EXCEPT ![r] = [row EXCEPT !.thumbnailURL = thumbnailDataURL(r)]]
            /\ Log(r, "updateVideo")
            /\ \E outcome \in CallOutcomes :
                IF outcome = "ok" THEN
                    /\ db' = updateVideo(db, video'[r])
                    /\ Reject(r, respondWithJSON(200, video'[r]))
                ELSE
                    /\ Reject(r, Throw("Error", <<"update failed">>))
                    /\ UNCHANGED db
    /\ UNCHANGED <<handler, videoId, userID, aspectRatio, probed, processedFilepath, completion,
                   fs, s3, pure>>

----------------------------------------------------------------------------
(* The system: requests interleave at their awaits *)

Next ==
    \E r \in Requests :
        \/ BeginVideo(r)
        \/ ValidateVideo(r)
        \/ Stage(r)
        \/ Inspect(r)
        \/ Remux(r)
        \/ Upload(r)
        \/ Record(r)
        \/ Sign(r)
        \/ ExistsTemp(r)
        \/ DeleteTemp(r)
        \/ ExistsProcessed(r)
        \/ DeleteProcessed(r)
        \/ StageLegacy(r)
        \/ UploadLegacy(r)
        \/ RecordLegacy(r)
        \/ ExistsTempLegacy(r)
        \/ DeleteTempLegacy(r)
        \/ BeginThumbnail(r)
        \/ ValidateThumbnail(r)
        \/ StoreThumbnail(r)

Spec == Init /\ [][Next]_vars

----------------------------------------------------------------------------
(* The upload validation on its own: every part, size and type *)

InitUpload ==
    /\ InitRequests
    /\ probe = IdleProbe
    /\ signing = IdleSigning
    /\ proc = IdleProc
    /\ upload \in [part : Parts, size : Sizes, type : Types, verdict : {Unset}]

ApplyCheckUpload ==
    /\ upload.verdict = Unset
    /\ upload' = [upload EXCEPT !.verdict = CheckUpload(upload.part, upload.size, upload.type)]
    /\ UNCHANGED <<pc, handler, locals, completion, response, trace, fs, s3, db, probe, signing, proc>>

SpecUpload == InitUpload /\ [][ApplyCheckUpload]_vars

----------------------------------------------------------------------------
(* The aspect classification on its own: every geometry of a bounded set *)

\* geometries on the edges of the tolerance bands and at the offsets the
\* specification names: 16/9 +- 0.01, 9/16 +- 0.01, 16/9 +- 0.005, 16/9 +- 0.02
EdgeGeometries ==
    { <<1609, 900>>, <<1591, 900>>, <<229, 400>>, <<221, 400>>,
      <<3209, 1800>>, <<3191, 1800>>, <<809, 450>>, <<791, 450>>,
      <<1920, 1080>>, <<1080, 1920>>, <<1280, 720>>, <<640, 480>> }

Geometries == ((1 .. MaxWidth) \X (1 .. MaxHeight)) \cup EdgeGeometries

InitAspect ==
    /\ InitRequests
    /\ upload = IdleUpload
    /\ signing = IdleSigning
    /\ proc = IdleProc
    /\ \E g \in Geometries : probe = [width |-> g[1], height |-> g[2], bucket |-> "unset"]

ApplyClassify ==
    /\ probe.bucket = "unset"
    /\ probe' = [probe EXCEPT !.bucket = classify(probe.width, probe.height)]
    /\ UNCHANGED <<pc, handler, locals, completion, response, trace, fs, s3, db, upload, signing, proc>>

SpecAspect == InitAspect /\ [][ApplyClassify]_vars

----------------------------------------------------------------------------
(* dbVideoToSignedVideo on its own: records with and without a stored key *)

SignURLs ==
    { <<>>, Undefined, legacyURL(legacyKey(1)) }
        \cup { videoKey(a, outputFilePath(tempFilepath(1))) : a \in {"landscape", "portrait", "other"} }

SignThumbnails == { <<>>, Undefined, thumbnailDataURL(1), thumbnailDataURL(2) }

InitSign ==
    /\ InitRequests
    /\ probe = IdleProbe
    /\ upload = IdleUpload
    /\ proc = IdleProc
    /\ signing \in [video : [id : {"v1"}, userID : Users, videoURL : SignURLs,
                              thumbnailURL : SignThumbnails],
                     result : {NoVideo}, state : {"unset"}, signerCalls : {0}]

\* if (!video.videoURL) return video; otherwise the signer is awaited and
\* its result stored in video.videoURL, or its rejection propagates
ApplySign ==
    /\ signing.state = "unset"
    /\ IF ~NeedsSigning(signing.video) THEN
            signing' = [signing EXCEPT !.result = signing.video, !.state = "returned"]
       ELSE
            \E outcome \in CallOutcomes :
                IF outcome = "ok" THEN
                    signing' = [signing EXCEPT
                                  !.result = [signing.video EXCEPT
                                                !.videoURL = generatePresignedURL(@, SIGN_TTL)],
                                  !.state = "returned",
                                  !.signerCalls = 1]
                ELSE
                    signing' = [signing EXCEPT !.state = "threw", !.signerCalls = 1]
    /\ UNCHANGED <<pc, handler, locals, completion, response, trace, fs, s3, db,
                   probe, upload, proc>>

SpecSign == InitSign /\ [][ApplySign]_vars

----------------------------------------------------------------------------
(* Bun.spawn with stdout: "pipe", stderr: "pipe": the child process and the
   reads of getVideoAspectRatio and processVideoForFastStart *)

\* the first stream each function awaits after the spawn
FirstRead(cmd) == IF cmd = "ffprobe" THEN "stdout" ELSE "stderr"

\* the process has outLeft and errLeft bytes still to write; lazy says
\* whether the runtime reads a pipe only when the program reads the stream
InitProcess ==
    /\ InitRequests
    /\ probe = IdleProbe
    /\ upload = IdleUpload
    /\ signing = IdleSigning
    /\ \E cmd \in {"ffprobe", "ffmpeg"}, lazy \in BOOLEAN,
          out \in 0 .. MaxOutput, err \in 0 .. MaxOutput :
            proc = [IdleProc EXCEPT !.cmd = cmd, !.lazy = lazy, !.stage = FirstRead(cmd),
                                    !.outLeft = out, !.errLeft = err]

ProcUnchanged ==
    UNCHANGED <<pc, handler, locals, completion, response, trace, fs, s3, db,
                probe, upload, signing>>

\* the process writes a byte to its standard output; it blocks on a full pipe
ProcWriteStdout ==
    /\ ~proc.exited
    /\ proc.outLeft > 0
    /\ proc.outPipe < PipeCapacity
    /\ proc' = [proc EXCEPT !.outLeft = @ - 1, !.outPipe = @ + 1]
    /\ ProcUnchanged

ProcWriteStderr ==
    /\ ~proc.exited
    /\ proc.errLeft > 0
    /\ proc.errPipe < PipeCapacity
    /\ proc' = [proc EXCEPT !.errLeft = @ - 1, !.errPipe = @ + 1]
    /\ ProcUnchanged

\* the process has written everything: it exits, closing both pipes
ProcExit ==
    /\ ~proc.exited
    /\ proc.outLeft = 0
    /\ proc.errLeft = 0
    /\ proc' = [proc EXCEPT !.exited = TRUE]
    /\ ProcUnchanged

\* a runtime that reads the pipes ahead of the program empties them
RuntimeDrain ==
    /\ ~proc.lazy
    /\ proc.outPipe + proc.errPipe > 0
    /\ proc' = [proc EXCEPT !.outPipe = 0, !.errPipe = 0]
    /\ ProcUnchanged

\* await new Response(result.stdout).text(): takes what the pipe holds, and
\* resolves at end of stream; only getVideoAspectRatio has this line
ReadStdout ==
    /\ proc.stage = "stdout"
    /\ IF proc.outPipe > 0 THEN proc' = [proc EXCEPT !.outPipe = 0]
       ELSE /\ proc.exited
            /\ proc' = [proc EXCEPT !.outRead = TRUE, !.stage = "stderr"]
    /\ ProcUnchanged

\* await new Response(result.stderr).text()
ReadStderr ==
    /\ proc.stage = "stderr"
    /\ IF proc.errPipe > 0 THEN proc' = [proc EXCEPT !.errPipe = 0]
       ELSE /\ proc.exited
            /\ proc' = [proc EXCEPT !.errRead = TRUE, !.stage = "exited"]
    /\ ProcUnchanged

\* const exitCode = await result.exited; if (exitCode !== 0) ...
AwaitExit ==
    /\ proc.stage = "exited"
    /\ proc.exited
    /\ proc' = [proc EXCEPT !.stage = "checked"]
    /\ ProcUnchanged

NextProcess ==
    \/ ProcWriteStdout
    \/ ProcWriteStderr
    \/ ProcExit
    \/ RuntimeDrain
    \/ ReadStdout
    \/ ReadStderr
    \/ AwaitExit

SpecProcess == InitProcess /\ [][NextProcess]_vars

----------------------------------------------------------------------------
(* Properties *)

VideoRequests == { r \in Requests : handler[r] \in {"video", "videoLegacy"} }

\* request r entered the try block of handlerUploadVideo
Staging(r) == r \in VideoRequests /\ "Bun.write" \in Events(r)

\* the two scratch paths of request r
ScratchPaths(r) == { tempFilepath(r), outputFilePath(tempFilepath(r)) }

\* a call of the finally block of request r threw
CleanupThrew(r) == "catch" \in Events(r)

\* the first token of the message of the error the try block of r threw
FailureOf(r) == IF completion[r].kind = "throw" THEN completion[r].message[1] ELSE ""

\* the try block of r failed at the remux: ffmpeg was the last step it ran
RemuxFailed(r) ==
    /\ completion[r].kind = "throw"
    /\ "ffmpeg" \in Events(r)
    /\ "uploadVideoToS3" \notin Events(r)

\* the references request r can record
ReferencesOf(r) ==
    { videoKey(a, outputFilePath(tempFilepath(r))) : a \in {"landscape", "portrait", "other"} }
        \cup { legacyURL(legacyKey(r)) }

\* C1: when a request that reached staging has completed, whatever its
\* outcome, neither its staged file nor its remux output file exists.
\* Stated for the requests whose filesystem calls in the finally block all
\* succeeded.
C1_ScratchFilesAbsent ==
    \A r \in Requests :
        (pc[r] = "done" /\ Staging(r) /\ ~CleanupThrew(r)) => ScratchPaths(r) \cap fs = {}

\* C2: when the remux process exits non-zero, after the request has
\* completed neither the staged file nor the remux output path exists, also
\* when the process created its output before failing.  Stated for the
\* requests whose filesystem calls in the finally block all succeeded.
C2_RemuxFailureCleansUp ==
    \A r \in Requests :
        (pc[r] = "done" /\ handler[r] = "video" /\ RemuxFailed(r) /\ ~CleanupThrew(r))
            => ScratchPaths(r) \cap fs = {}

\* C3: a request that failed at staging, inspection, remux or upload has
\* not invoked updateVideo, and the stored reference is not one of its own.
C3_FailureLeavesRecord ==
    \A r \in Requests :
        (Staging(r) /\ FailureOf(r) \in {"write failed", "ffprobe failed with exit code ",
                                         "undefined is not an object", "upload failed"})
            => /\ "updateVideo" \notin Events(r)
               /\ \A id \in DOMAIN db : db[id].videoURL \notin ReferencesOf(r)

C3_Witness ==
    \E r \in Requests :
        /\ pc[r] = "done"
        /\ handler[r] = "video"
        /\ RemuxFailed(r)
        /\ db["v1"].videoURL = InitialVideo.videoURL

\* C4: if the existence test or the deletion of the staged file throws, the
\* deletion of the remux output file is still attempted.
C4_EveryPathAttempted ==
    \A r \in Requests :
        (/\ pc[r] = "done"
         /\ handler[r] = "video"
         /\ processedFilepath[r] # <<>>
         /\ \E i \in 1 .. Len(trace[r]) - 1 :
                /\ trace[r][i] \in {"exists:temp", "delete:temp"}
                /\ trace[r][i + 1] = "catch")
            => "exists:processed" \in Events(r)

\* C5: a failure inside cleanup never changes the outcome: a request that
\* entered the try block settles with the completion of the try block, the
\* error it threw or the response it returned.
C5_CleanupNeverMasks ==
    \A r \in Requests :
        (pc[r] = "done" /\ Staging(r))
            => /\ completion[r].kind \in {"throw", "return"}
               /\ response[r] = completion[r]

C5_Witness ==
    /\ \E r \in Requests :
        pc[r] = "done" /\ CleanupThrew(r) /\ completion[r].kind = "throw"
    /\ \E r \in Requests :
        pc[r] = "done" /\ CleanupThrew(r) /\ completion[r].kind = "return"

\* C6: a video upload rejected by validation (BadRequest) has made no call
\* with an effect: no file of its own exists, no object of the bucket is
\* its own, the stored reference is not its own.
C6_RejectedBeforeStaging ==
    \A r \in VideoRequests :
        response[r].name = "BadRequestError"
            => /\ trace[r] = <<>>
               /\ ScratchPaths(r) \cap fs = {}
               /\ \A o \in s3 : o.file \notin ScratchPaths(r)
               /\ \A id \in DOMAIN db : db[id].videoURL \notin ReferencesOf(r)

C6_Witness ==
    /\ \E r \in VideoRequests :
        response[r].message = <<"Video file is too large (max 1 GB)">>
    /\ \E r \in VideoRequests :
        response[r].message = <<"Invalid video ID">>

\* request r is authenticated as a user who does not own the row it names
NotOwner(r) ==
    /\ userID[r] # ""
    /\ videoId[r] \in DOMAIN db
    /\ db[videoId[r]].userID # userID[r]

\* request r has had no effect on the filesystem, the bucket or the table
NoEffect(r) ==
    /\ trace[r] = <<>>
    /\ ScratchPaths(r) \cap fs = {}
    /\ \A o \in s3 : o.file \notin ScratchPaths(r)
    /\ \A id \in DOMAIN db :
        /\ db[id].videoURL \notin ReferencesOf(r)
        /\ db[id].thumbnailURL # thumbnailDataURL(r)

\* C7, as stated: every completed request (video upload in both variants,
\* thumbnail upload) of a user who is not the owner of the row failed with
\* Forbidden and had no effect.
C7_NonOwnerForbidden ==
    \A r \in Requests :
        (pc[r] = "done" /\ NotOwner(r))
            => response[r].name = "UserForbiddenError" /\ NoEffect(r)

\* C7, amended: a completed video upload of a non-owner failed with
\* Forbidden; a completed thumbnail upload of a non-owner failed with
\* Forbidden, or with BadRequest when its file part was rejected, which
\* happens before the row is read; a non-owner's request has no effect, and
\* updateVideo is only invoked by a request whose user owns the row.
C7_NonOwnerNeverWrites ==
    /\ \A r \in Requests :
        (pc[r] = "done" /\ NotOwner(r))
            => /\ r \in VideoRequests => response[r].name = "UserForbiddenError"
               /\ handler[r] = "thumbnail" =>
                    \/ response[r].name = "UserForbiddenError"
                    \/ response[r].name = "BadRequestError" /\ video[r] = NoVideo
    /\ \A r \in Requests : NotOwner(r) => NoEffect(r)
    /\ \A r \in Requests :
        "updateVideo" \in Events(r)
            => userID[r] = video[r].userID /\ userID[r] = db[videoId[r]].userID

C7_Witness ==
    /\ \E r \in VideoRequests :
        pc[r] = "done" /\ NotOwner(r) /\ response[r].name = "UserForbiddenError"
    /\ \E r \in Requests :
        /\ handler[r] = "thumbnail"
        /\ pc[r] = "done"
        /\ NotOwner(r)
        /\ response[r].name = "UserForbiddenError"

\* C8: an upload passes validation iff the part is a file, its size is at
\* most 1 << 30 and its type is exactly video/mp4; each cause of rejection
\* gives a BadRequestError with a message of its own.
C8_Validation ==
    upload.verdict # Unset =>
        LET v == upload.verdict
            isFile == upload.part = "file"
            fits == upload.size <= 1073741824
            isMp4 == upload.type = <<"video", "/", "mp4">>
        IN  /\ v.kind # "throw" <=> (isFile /\ fits /\ isMp4)
            /\ v.kind = "throw" =>
                /\ v.name = "BadRequestError"
                /\ v.message \in { <<"No video file provided">>,
                                   <<"Video file is too large (max 1 GB)">>,
                                   <<"Unsupported thumbnail file type">> }
                /\ v.message = <<"No video file provided">> <=> ~isFile
                /\ v.message = <<"Video file is too large (max 1 GB)">> => isFile /\ ~fits
                /\ v.message = <<"Unsupported thumbnail file type">> => isFile /\ fits /\ ~isMp4
            /\ (isFile /\ isMp4 /\ upload.size = 1073741824) => v.kind # "throw"
            /\ (isFile /\ isMp4 /\ upload.size = 1073741825) => v.kind = "throw"

C8_Witness ==
    /\ upload.verdict = Pending
    /\ upload.size = 1073741824

\* C9: the bucket is landscape iff |width/height - 16/9| < 0.01, otherwise
\* portrait iff |width/height - 9/16| < 0.01, otherwise other; 16/9 gives
\* landscape, 9/16 portrait, 1 other, 16/9 +- 0.005 landscape and
\* 16/9 +- 0.02 other.
C9_Classification ==
    probe.bucket # "unset" =>
        LET w == probe.width
            h == probe.height
            nearLandscape == -9 * h < 100 * (9 * w - 16 * h) /\ 100 * (9 * w - 16 * h) < 9 * h
            nearPortrait == -16 * h < 100 * (16 * w - 9 * h) /\ 100 * (16 * w - 9 * h) < 16 * h
        IN  /\ probe.bucket = "landscape" <=> nearLandscape
            /\ probe.bucket = "portrait" <=> (~nearLandscape /\ nearPortrait)
            /\ probe.bucket = "other" <=> (~nearLandscape /\ ~nearPortrait)
            /\ 9 * w = 16 * h => probe.bucket = "landscape"
            /\ 16 * w = 9 * h => probe.bucket = "portrait"
            /\ w = h => probe.bucket = "other"
            /\ <<w, h>> \in { <<3209, 1800>>, <<3191, 1800>> } => probe.bucket = "landscape"
            /\ <<w, h>> \in { <<809, 450>>, <<791, 450>> } => probe.bucket = "other"

C9_Witness ==
    /\ probe.bucket = "landscape"
    /\ probe.width = 3209
    /\ probe.height = 1800

\* C10: the reference the fast-start variant writes to the row begins with
\* the bucket the inspection of the same request computed, followed by "/",
\* and ends with ".mp4"; for a video classified landscape it begins with
\* "landscape/".
C10_KeyCarriesBucket ==
    [][\A r \in Requests :
        (handler[r] = "video" /\ pc[r] = "record" /\ pc'[r] = "sign")
            => LET key == db'[videoId[r]].videoURL IN
               /\ StartsWith(key, <<aspectRatio[r], "/">>)
               /\ EndsWith(key, <<".", "mp4">>)
               /\ aspectRatio[r] = "landscape" => StartsWith(key, <<"landscape", "/">>)]_vars

C10_Witness ==
    \E r \in Requests :
        /\ handler[r] = "video"
        /\ pc[r] = "done"
        /\ response[r].kind = "return"
        /\ response[r].status = 200
        /\ aspectRatio[r] = "landscape"
        /\ userID[r] = Owner
        /\ StartsWith(db[videoId[r]].videoURL, <<"landscape", "/">>)
        /\ EndsWith(db[videoId[r]].videoURL, <<".", "mp4">>)

\* C11: a fast-start upload that succeeds answers 200 with the record whose
\* video reference is the signed URL of the key it has just recorded, with
\* a TTL of 300 seconds; the stored reference of a row is never a signed
\* URL: it is the initial one or a reference an upload recorded.
C11_SignedNeverPersisted ==
    /\ \A r \in Requests :
        (handler[r] = "video" /\ response[r].kind = "return")
            => /\ response[r].status = 200
               /\ "updateVideo" \in Events(r)
               /\ response[r].video.id = videoId[r]
               /\ response[r].video.videoURL =
                    <<"presigned:", aspectRatio[r], "/">> \o processedFilepath[r]
                        \o <<"?expires=", "300">>
    /\ \A id \in DOMAIN db :
        /\ ~StartsWith(db[id].videoURL, <<"presigned:">>)
        /\ \/ db[id].videoURL = InitialVideo.videoURL
           \/ \E r \in Requests : db[id].videoURL \in ReferencesOf(r)

C11_Witness ==
    \E r \in Requests :
        /\ handler[r] = "video"
        /\ pc[r] = "done"
        /\ response[r].kind = "return"
        /\ StartsWith(response[r].video.videoURL, <<"presigned:">>)
        /\ db[videoId[r]].videoURL = videoKey(aspectRatio[r], processedFilepath[r])

\* C12: dbVideoToSignedVideo on a record whose videoURL is empty or absent
\* returns the record with every field unchanged, does not call the signer
\* and does not fail.
C12_SigningNoKeyIsNoOp ==
    (signing.state # "unset" /\ signing.video.videoURL \in { <<>>, Undefined })
        => /\ signing.state = "returned"
           /\ signing.result = signing.video
           /\ signing.signerCalls = 0

C12_Witness ==
    /\ signing.state = "returned"
    /\ signing.video.videoURL = Undefined
    /\ signing.video.thumbnailURL = thumbnailDataURL(1)
    /\ signing.result = signing.video

\* the calls of the try block of the fast-start handler, in program order
Pipeline ==
    <<"Bun.write", "ffprobe", "ffmpeg", "uploadVideoToS3", "updateVideo", "generatePresignedURL">>

\* the calls of the finally block
CleanupEvents ==
    {"exists:temp", "delete:temp", "exists:processed", "delete:processed", "catch"}

\* the number of calls of the try block request r has made
BodyLength(r) == Cardinality({ i \in 1 .. Len(trace[r]) : trace[r][i] \notin CleanupEvents })

\* the number of calls the try block makes up to the one that throws err
FailedAt(message) ==
    CASE message = "write failed" -> {1}
      [] message = "undefined is not an object" -> {2}
      [] message = "ffprobe failed with exit code " -> {2, 3}
      [] message = "upload failed" -> {4}
      [] message = "update failed" -> {5}
      [] message = "signing failed" -> {6}
      [] OTHER -> {}

\* C13: in the fast-start handler the steps run in the order stage,
\* inspect, remux, upload, record (then sign), each at most once and each
\* only after the one before it succeeded; cleanup comes last; after the
\* first failure only cleanup runs.  The upload follows a successful remux
\* and pushes the remuxed file; the record update follows a successful upload.
C13_StrictSequence ==
    \A r \in Requests :
        handler[r] = "video" =>
            LET n == BodyLength(r)
                remuxed == outputFilePath(tempFilepath(r)) IN
            /\ n <= Len(Pipeline)
            /\ SubSeq(trace[r], 1, n) = SubSeq(Pipeline, 1, n)
            /\ n >= 1 => /\ video[r] # NoVideo
                         /\ video[r].userID = userID[r]
            /\ (n >= 2 /\ "delete:temp" \notin Events(r)) => tempFilepath(r) \in fs
            /\ n >= 3 => aspectRatio[r] \in {"landscape", "portrait", "other"}
            /\ n >= 4 => /\ processedFilepath[r] = remuxed
                         /\ "delete:processed" \notin Events(r) => remuxed \in fs
            /\ n >= 5 => \E o \in s3 : /\ o.key = videoKey(aspectRatio[r], remuxed)
                                       /\ o.file = remuxed
            /\ n >= 6 => db[videoId[r]].videoURL \in ReferencesOf(r)
                            \/ \E q \in Requests \ {r} : "updateVideo" \in Events(q)
            /\ completion[r].kind = "throw"
                => /\ pc[r] \in {"existsTemp", "deleteTemp", "existsProcessed",
                                 "deleteProcessed", "done"}
                   /\ n \in FailedAt(FailureOf(r))
            /\ pc[r] \in {"start", "formData", "write"} => trace[r] = <<>>
            /\ \A o \in s3 :
                 (\E a \in {"landscape", "portrait", "other"} : o.key = videoKey(a, remuxed))
                    => o.file = remuxed /\ n >= 4

C13_Witness ==
    \E r, q \in Requests :
        /\ handler[r] = "video"
        /\ pc[r] = "done"
        /\ Len(trace[r]) > Len(Pipeline)
        /\ SubSeq(trace[r], 1, Len(Pipeline)) = Pipeline
        /\ "delete:processed" \in Events(r)
        /\ handler[q] = "video"
        /\ pc[q] = "done"
        /\ FailureOf(q) = "upload failed"
        /\ BodyLength(q) = 4

\* C14: the key under which a fast-start request uploads the remuxed file,
\* and which it records as the stored reference, is exactly
\* {aspectBucket}/{generatedName}.mp4: the bucket, a slash, the random
\* string of the request and ".mp4", with nothing else.
C14_KeyIsBucketAndName ==
    \A r \in Requests :
        handler[r] = "video" =>
            LET expected == <<aspectRatio[r], "/">> \o randomString(r) \o <<".", "mp4">> IN
            /\ \A o \in s3 : o.file = outputFilePath(tempFilepath(r)) => o.key = expected
            /\ pc[r] = "sign" => video[r].videoURL = expected

\* C15: for the probe and for the remux process, the exit code is inspected
\* only after both the standard output and the standard error of the
\* process have been read to end of stream.
C15_StreamsReadBeforeExitCode ==
    proc.stage = "checked" => proc.outRead /\ proc.errRead

\* the probe of request r ran and exited non-zero, or reported no stream
ProbeFailed(r) ==
    /\ probed[r] # NotProbed
    /\ probed[r].exitCode # 0 \/ probed[r].streams = <<>>

\* C16: when the probe process exits non-zero, or exits zero with an empty
\* stream list, the inspection returns no bucket and the request aborts with
\* an internal error: remux, upload and record update are not executed, and
\* the finally block runs before the request settles with that error.
C16_ProbeFailureAborts ==
    \A r \in Requests :
        (handler[r] = "video" /\ ProbeFailed(r))
            => /\ aspectRatio[r] = ""
               /\ completion[r].kind = "throw"
               /\ completion[r].name \in {"Error", "TypeError"}
               /\ Events(r) \cap {"ffmpeg", "uploadVideoToS3", "updateVideo",
                                  "generatePresignedURL"} = {}
               /\ \A id \in DOMAIN db : db[id].videoURL \notin ReferencesOf(r)
               /\ pc[r] \in {"existsTemp", "deleteTemp", "existsProcessed", "deleteProcessed",
                             "done"}
               /\ pc[r] = "done" => /\ "exists:temp" \in Events(r)
                                    /\ response[r] = completion[r]

C16_Witness ==
    \E r, q \in Requests :
        /\ handler[r] = "video" /\ pc[r] = "done"
        /\ probed[r].exitCode = 1
        /\ handler[q] = "video" /\ pc[q] = "done"
        /\ probed[q] = [exitCode |-> 0, streams |-> <<>>]
        /\ response[q].name = "TypeError"

\* C17: a remux that exits non-zero fails with an error that carries the
\* captured standard error and that differs from the error the inspection
\* raises when the probe exits with the same code.
C17_RemuxFailureIdentified ==
    \A r \in Requests :
        (handler[r] = "video" /\ RemuxFailed(r))
            => /\ completion[r].message[Len(completion[r].message)] = "stderr"
               /\ \A q \in Requests :
                    (handler[q] = "video" /\ probed[q] # NotProbed /\ probed[q].exitCode # 0)
                        => [name |-> completion[q].name, message |-> completion[q].message]
                            # [name |-> completion[r].name, message |-> completion[r].message]

\* C18: the record write of a video upload changes only the stored video
\* reference: every other field of every persisted record keeps the value
\* it had in the store immediately before the write, so a thumbnail stored
\* since the upload read the record survives.
C18_WriteChangesOnlyReference ==
    [][\A r \in Requests :
          (r \in VideoRequests /\ pc[r] = "record" /\ pc'[r] # "record")
              => \A id \in DOMAIN db : [db'[id] EXCEPT !.videoURL = db[id].videoURL] = db[id]]_vars

\* the position of the first call named event in the history of request r,
\* 0 when r has not made it
FirstCall(r, event) ==
    IF event \in Events(r)
    THEN CHOOSE i \in 1 .. Len(trace[r]) :
            /\ trace[r][i] = event
            /\ \A j \in 1 .. i - 1 : trace[r][j] # event
    ELSE 0

\* C19: no dangling reference.  In every reachable state, a stored
\* reference that a request of the pipeline wrote names an object that the
\* same request uploaded under exactly that key before it wrote the
\* reference.  For the earlier variant, whose reference is the public URL of
\* its key, the object is the one under the key inside that URL.
C19_NoDanglingReference ==
    \A id \in DOMAIN db, r \in Requests :
        /\ (\E a \in {"landscape", "portrait", "other"} :
                db[id].videoURL = videoKey(a, outputFilePath(tempFilepath(r))))
            => /\ handler[r] = "video"
               /\ \E o \in s3 : /\ o.key = db[id].videoURL
                                /\ o.file = outputFilePath(tempFilepath(r))
               /\ 0 < FirstCall(r, "uploadVideoToS3")
               /\ FirstCall(r, "uploadVideoToS3") < FirstCall(r, "updateVideo")
        /\ db[id].videoURL = legacyURL(legacyKey(r))
            => /\ handler[r] = "videoLegacy"
               /\ \E o \in s3 : o.key = legacyKey(r)
               /\ 0 < FirstCall(r, "uploadVideoToS3")
               /\ FirstCall(r, "uploadVideoToS3") < FirstCall(r, "updateVideo")

C19_Witness ==
    \E r, q \in Requests :
        /\ handler[r] = "video" /\ pc[r] = "done"
        /\ "updateVideo" \in Events(r)
        /\ db[videoId[r]].videoURL = videoKey(aspectRatio[r], processedFilepath[r])
        /\ handler[q] = "video" /\ pc[q] = "done"
        /\ FailureOf(q) = "upload failed"

====
